---- MODULE Spec2Model ----
(***************************************************************************)
(* rustml: the allocating linear-algebra operations of src/src/ops.rs and  *)
(* the helpers of src/src/vectors.rs.                                      *)
(*                                                                         *)
(* The operands of a call (two matrices A and B, two vectors x and y) live *)
(* in a heap of buffers; an operation reads them through their pointers,   *)
(* allocates its result at a fresh address and may hand raw pointers to    *)
(* the BLAS primitives, which write through them.  Every action is one     *)
(* call of one operation on the operands; `call` records the call, `res`   *)
(* its outcome (a vector, a matrix or a panic) and `blas` the primitive    *)
(* invocations the call made.                                              *)
(*                                                                         *)
(* Element values.  An element is a pair <<n, d>>.  For the float kind     *)
(* ("f64") it is the rational n/d in lowest terms with d > 0, and d = 0    *)
(* encodes the IEEE specials: <<1,0>> = +inf, <<-1,0>> = -inf,             *)
(* <<0,0>> = NaN.  Rounding is not modelled: the inputs are small integers *)
(* on which +, - and * are exact in f64.  Negative zero is not modelled:   *)
(* no operand holds it and no single operation divides by a value it has   *)
(* computed.  For the integer kind ("i8") an element is <<n, 1>> with n in *)
(* -128..127.                                                              *)
(***************************************************************************)
EXTENDS Integers, Sequences, FiniteSets, TLC

VARIABLES kind, build, heap, A, B, x, y, orig, call, res, blas,
          gpc, gv, gi, gr

vars == <<kind, build, heap, A, B, x, y, orig, call, res, blas, gpc, gv, gi, gr>>

\* The linear-algebra part of the state, and the part of a running `group`.
algebra == <<kind, build, heap, A, B, x, y, orig, call, res, blas>>

grp == <<gpc, gv, gi, gr>>

(***************************************************************************)
(* Bounds of the model.                                                    *)
(***************************************************************************)
MaxDim == 2

MaxSeed == 1

\* The longest vector handed to `group`.
MaxLen == 4

(***************************************************************************)
(* Scalar arithmetic.                                                      *)
(***************************************************************************)
Abs(n) == IF n < 0 THEN -n ELSE n

Sign(n) == IF n < 0 THEN -1 ELSE IF n > 0 THEN 1 ELSE 0

Min(a, b) == IF a < b THEN a ELSE b

RECURSIVE GCD(_, _)
GCD(a, b) == IF b = 0 THEN a ELSE GCD(b, a % b)

\* n/d in lowest terms with a positive denominator; d = 0 gives a special.
Norm(n, d) ==
    IF d = 0 THEN <<Sign(n), 0>>
    ELSE LET g == GCD(Abs(n), Abs(d))
             s == IF d < 0 THEN -1 ELSE 1
         IN <<(s * n) \div g, (s * d) \div g>>

F(n) == <<n, 1>>

NaN == <<0, 0>>

IsSpecial(v) == v[2] = 0

FNeg(v) == <<-v[1], v[2]>>

FAdd(a, b) ==
    IF a = NaN \/ b = NaN THEN NaN
    ELSE IF IsSpecial(a) /\ IsSpecial(b) THEN (IF a = b THEN a ELSE NaN)
    ELSE IF IsSpecial(a) THEN a
    ELSE IF IsSpecial(b) THEN b
    ELSE Norm(a[1] * b[2] + b[1] * a[2], a[2] * b[2])

FSub(a, b) == FAdd(a, FNeg(b))

FMul(a, b) == Norm(a[1] * b[1], a[2] * b[2])

FRecip(v) == IF v[1] < 0 THEN Norm(-v[2], -v[1]) ELSE Norm(v[2], v[1])

FDiv(a, b) == FMul(a, FRecip(b))

\* The bounded signed integer kind.
IntMin == -128

IntMax == 127

Wrap(n) == ((n - IntMin) % (IntMax - IntMin + 1)) + IntMin

\* Rust's integer division truncates toward zero.
TruncDiv(a, b) == Sign(a) * Sign(b) * (Abs(a) \div Abs(b))

Kinds == {"f64", "i8"}

Builds == {"debug", "release"}

IntRaw(op, a, b) ==
    CASE op = "add" -> a + b
      [] op = "sub" -> a - b
      [] op = "mul" -> a * b
      [] op = "div" -> IF b = 0 THEN 0 ELSE TruncDiv(a, b)

\* Whether `a op b` panics for elements of kind k in the given build:
\* integer overflow panics in a debug build and wraps in a release build,
\* integer division by zero (and MIN / -1) panics in both.
ElemPanics(k, bld, op, a, b) ==
    /\ k = "i8"
    /\ IF op = "div"
       THEN b[1] = 0 \/ (a[1] = IntMin /\ b[1] = -1)
       ELSE /\ bld = "debug"
            /\ IntRaw(op, a[1], b[1]) \notin IntMin..IntMax

ElemMsg(op, b) ==
    IF op = "div" /\ b[1] = 0 THEN "attempt to divide by zero"
    ELSE "arithmetic overflow"

ElemOp(k, op, a, b) ==
    IF k = "i8" THEN F(Wrap(IntRaw(op, a[1], b[1])))
    ELSE CASE op = "add" -> FAdd(a, b)
           [] op = "sub" -> FSub(a, b)
           [] op = "mul" -> FMul(a, b)
           [] op = "div" -> FDiv(a, b)

(***************************************************************************)
(* Operand values.  The elements of an operand of n elements are           *)
(* Pattern(s, 1) .. Pattern(s, n) for a seed s: small integers that differ *)
(* from position to position and include zero and negative values.  For    *)
(* the integer kind the extreme patterns stand for the extreme values of   *)
(* the kind.                                                               *)
(***************************************************************************)
Pattern(s, k) == ((3 * k + 2 * s + k * s) % 7) - 2

ElemOf(k, v) ==
    IF k = "i8"
    THEN F(CASE v = -2 -> IntMin [] v = 4 -> IntMax [] v = 3 -> 100 [] OTHER -> v)
    ELSE F(v)

GenBuf(k, s, n) == [i \in 1..n |-> ElemOf(k, Pattern(s, i))]

\* The same elements in reverse order.
GenBufRev(k, s, n) == [i \in 1..n |-> ElemOf(k, Pattern(s, n - i + 1))]

Dims == 0..MaxDim

Seeds == 0..MaxSeed

\* Scalar arguments of the scalar and scaled operations.
Scalars == {-3, 2}

(***************************************************************************)
(* Values and outcomes.                                                    *)
(***************************************************************************)
Vec(p, n) == [ptr |-> p, len |-> n]

Mat(p, r, c) == [ptr |-> p, rows |-> r, cols |-> c]

NoRes == [tag |-> "none", ptr |-> 0, len |-> 0, rows |-> 0, cols |-> 0, msg |-> ""]

VecRes(p, n) == [NoRes EXCEPT !.tag = "vec", !.ptr = p, !.len = n]

MatRes(p, r, c) == [NoRes EXCEPT !.tag = "mat", !.ptr = p, !.rows = r, !.cols = c]

Panic(m) == [NoRes EXCEPT !.tag = "panic", !.msg = m]

Out(h, r, log) == [heap |-> h, res |-> r, blas |-> log]

\* The address a new allocation gets.
Fresh(h) == CHOOSE a \in 1..(Cardinality(DOMAIN h) + 1) : a \notin DOMAIN h

Alloc(h, buf) == [a \in DOMAIN h \cup {Fresh(h)} |-> IF a \in DOMAIN h THEN h[a] ELSE buf]

Store(h, p, buf) == [h EXCEPT ![p] = buf]

\* `iter::repeat(v).take(n).collect()`
Repeat(v, n) == [i \in 1..n |-> v]

(***************************************************************************)
(* Vector-vector operations: `self.iter().zip(v.iter()).map(f).collect()`. *)
(* zip stops at the end of the shorter operand; map applies the element    *)
(* operation in index order, so the first element that panics decides.     *)
(***************************************************************************)
\* Mutant: operands of different lengths are refused.
Mut_ZipMap_checked(h, k, bld, op, a, v) ==
    LET n == Min(a.len, v.len)
        bad == {i \in 1..n : ElemPanics(k, bld, op, h[a.ptr][i], h[v.ptr][i])}
        first == CHOOSE i \in bad : \A j \in bad : i <= j
    IN IF a.len # v.len THEN Out(h, Panic("Invalid dimensions."), <<>>)
       ELSE IF bad # {}
       THEN Out(h, Panic(ElemMsg(op, h[v.ptr][first])), <<>>)
       ELSE Out(Alloc(h, [i \in 1..n |-> ElemOp(k, op, h[a.ptr][i], h[v.ptr][i])]),
                VecRes(Fresh(h), n), <<>>)

ZipMap(h, k, bld, op, a, v) ==
    LET n == Min(a.len, v.len)
        bad == {i \in 1..n : ElemPanics(k, bld, op, h[a.ptr][i], h[v.ptr][i])}
        first == CHOOSE i \in bad : \A j \in bad : i <= j
    IN IF bad # {}
       THEN Out(h, Panic(ElemMsg(op, h[v.ptr][first])), <<>>)
       ELSE Out(Alloc(h, [i \in 1..n |-> ElemOp(k, op, h[a.ptr][i], h[v.ptr][i])]),
                VecRes(Fresh(h), n), <<>>)

VectorVectorOps_sub(h, k, bld, a, v) == ZipMap(h, k, bld, "sub", a, v)

\* Mutant: add subtracts.
Mut_add_subtracts(h, k, bld, a, v) == ZipMap(h, k, bld, "sub", a, v)

VectorVectorOps_add(h, k, bld, a, v) == ZipMap(h, k, bld, "add", a, v)

VectorVectorOps_mul(h, k, bld, a, v) == ZipMap(h, k, bld, "mul", a, v)

VectorVectorOps_div(h, k, bld, a, v) == ZipMap(h, k, bld, "div", a, v)

(***************************************************************************)
(* The matrix container (crate module `matrix`): a row-major buffer of     *)
(* rows * cols elements; row i is the slice of cols elements at offset     *)
(* i * cols.                                                               *)
(***************************************************************************)
Slice(p, o, n) == [ptr |-> p, off |-> o, len |-> n]

AsSlice(v) == Slice(v.ptr, 0, v.len)

\* `Matrix::fill(v, r, c)`
Matrix_fill(h, v, r, c) == Out(Alloc(h, Repeat(v, r * c)), MatRes(Fresh(h), r, c), <<>>)

\* `Matrix::from_vec(buf, r, c)`
Matrix_from_vec(h, buf, r, c) == Out(Alloc(h, buf), MatRes(Fresh(h), r, c), <<>>)

\* `m.clone()`: an independent buffer with the same elements.
Matrix_clone(h, m) == Out(Alloc(h, h[m.ptr]), MatRes(Fresh(h), m.rows, m.cols), <<>>)

\* `v.clone()` and `v.to_vec()`
Vec_clone(h, v) == Out(Alloc(h, h[v.ptr]), VecRes(Fresh(h), v.len), <<>>)

\* `m.row_mut(i)`, i counted from 0; None when there is no such row.
Matrix_row_mut(m, i) == Slice(m.ptr, i * m.cols, m.cols)

\* `m.get_mut(r, c)`, both counted from 0: the offset of the element, or
\* None (-1) when there is no such element.
Matrix_get_mut(m, r, c) == IF r < m.rows /\ c < m.cols THEN r * m.cols + c ELSE -1

(***************************************************************************)
(* The BLAS primitives, by their contract: row-major storage, element      *)
(* (i, j) of an operand with leading dimension ld at offset i * ld + j.    *)
(* A primitive trusts its shape arguments: `oob` records whether they made *)
(* it touch memory outside a buffer (such a read yields an unspecified     *)
(* value, here NaN; such a write is dropped).                              *)
(***************************************************************************)
Read(h, p, i) == IF i \in DOMAIN h[p] THEN h[p][i] ELSE NaN

RECURSIVE SumSeq(_, _)
SumSeq(s, n) == IF n = 0 THEN F(0) ELSE FAdd(SumSeq(s, n - 1), s[n])

\* alpha * d + beta * c; with beta = 0 the accumulator is not read.
Axpby(alpha, d, beta, c) ==
    IF beta = F(0) THEN FMul(alpha, d) ELSE FAdd(FMul(alpha, d), FMul(beta, c))

BlasCall(fn, oob) == [fn |-> fn, oob |-> oob]

\* y := alpha * op(A) * x + beta * y, A of m rows and n columns.
cblas_dgemv(h, trans, m, n, alpha, ap, lda, xp, incx, beta, yp, incy) ==
    LET xlen == IF trans THEN m ELSE n
        ylen == IF trans THEN n ELSE m
        a(i, j) == Read(h, ap, i * lda + j + 1)
        dot(t) == SumSeq([u \in 1..xlen |->
                            FMul(IF trans THEN a(u - 1, t) ELSE a(t, u - 1),
                                 Read(h, xp, (u - 1) * incx + 1))], xlen)
        newy == [q \in DOMAIN h[yp] |->
                   IF \E t \in 0..(ylen - 1) : t * incy + 1 = q
                   THEN LET t == CHOOSE t \in 0..(ylen - 1) : t * incy + 1 = q
                        IN Axpby(alpha, dot(t), beta, h[yp][q])
                   ELSE h[yp][q]]
        oob == \/ m > 0 /\ n > 0 /\ (m - 1) * lda + n > Len(h[ap])
               \/ xlen > 0 /\ (xlen - 1) * incx + 1 > Len(h[xp])
               \/ ylen > 0 /\ (ylen - 1) * incy + 1 > Len(h[yp])
    IN Out(Store(h, yp, newy), NoRes, <<BlasCall("dgemv", oob)>>)

\* C := alpha * op(A) * op(B) + beta * C, op(A) m x k, op(B) k x n, C m x n.
cblas_dgemm(h, ta, tb, m, n, k, alpha, ap, lda, bp, ldb, beta, cp, ldc) ==
    LET a(i, l) == IF ta THEN Read(h, ap, l * lda + i + 1) ELSE Read(h, ap, i * lda + l + 1)
        b(l, j) == IF tb THEN Read(h, bp, j * ldb + l + 1) ELSE Read(h, bp, l * ldb + j + 1)
        dot(i, j) == SumSeq([u \in 1..k |-> FMul(a(i, u - 1), b(u - 1, j))], k)
        hit(q) == {ij \in (0..(m - 1)) \X (0..(n - 1)) : ij[1] * ldc + ij[2] + 1 = q}
        newc == [q \in DOMAIN h[cp] |->
                   IF hit(q) # {}
                   THEN LET ij == CHOOSE ij \in hit(q) : TRUE
                        IN Axpby(alpha, dot(ij[1], ij[2]), beta, h[cp][q])
                   ELSE h[cp][q]]
        last(rows, cols, ld) == IF rows > 0 /\ cols > 0 THEN (rows - 1) * ld + cols ELSE 0
        oob == \/ last(IF ta THEN k ELSE m, IF ta THEN m ELSE k, lda) > Len(h[ap])
               \/ last(IF tb THEN n ELSE k, IF tb THEN k ELSE n, ldb) > Len(h[bp])
               \/ last(m, n, ldc) > Len(h[cp])
    IN Out(Store(h, cp, newc), NoRes, <<BlasCall("dgemm", oob)>>)

(***************************************************************************)
(* The in-place engine (crate module `ops_inplace`).                       *)
(***************************************************************************)
InvalidDimensions == "Invalid dimensions."

\* d_gemv / s_gemv: the shape contract is checked before the primitive runs.
d_gemv(h, trans, alpha, a, v, beta, yy) ==
    IF (~trans /\ (a.cols # v.len \/ a.rows # yy.len))
         \/ (trans /\ (a.rows # v.len \/ a.cols # yy.len))
    THEN Out(h, Panic(InvalidDimensions), <<>>)
    ELSE cblas_dgemv(h, trans, a.rows, a.cols, alpha, a.ptr, a.cols, v.ptr, 1,
                     beta, yy.ptr, 1)

\* d_gemm: the effective shapes are checked before the primitive runs.
d_gemm(h, alpha, a, b, beta, c, ta, tb) ==
    LET m == IF ta THEN a.cols ELSE a.rows
        ka == IF ta THEN a.rows ELSE a.cols
        kb == IF tb THEN b.cols ELSE b.rows
        n == IF tb THEN b.rows ELSE b.cols
    IN IF ka # kb \/ c.rows # m \/ c.cols # n
       THEN Out(h, Panic(InvalidDimensions), <<>>)
       ELSE cblas_dgemm(h, ta, tb, m, n, ka, alpha, a.ptr, a.cols, b.ptr, b.cols,
                        beta, c.ptr, c.cols)

\* iadd / isub / imul on a slice: elementwise into the receiver.
InPlaceZip(h, k, bld, op, s, v) ==
    LET bad == {i \in 1..s.len : ElemPanics(k, bld, op, h[s.ptr][s.off + i], h[v.ptr][v.off + i])}
        first == CHOOSE i \in bad : \A j \in bad : i <= j
    IN IF s.len # v.len THEN Out(h, Panic(InvalidDimensions), <<>>)
       ELSE IF bad # {} THEN Out(h, Panic(ElemMsg(op, h[v.ptr][v.off + first])), <<>>)
       ELSE Out(Store(h, s.ptr,
                      [q \in DOMAIN h[s.ptr] |->
                         IF q - s.off \in 1..s.len
                         THEN ElemOp(k, op, h[s.ptr][q], h[v.ptr][v.off + (q - s.off)])
                         ELSE h[s.ptr][q]]),
                NoRes, <<>>)

VectorVectorOpsInPlace_iadd(h, k, bld, s, v) == InPlaceZip(h, k, bld, "add", s, v)

VectorVectorOpsInPlace_isub(h, k, bld, s, v) == InPlaceZip(h, k, bld, "sub", s, v)

VectorVectorOpsInPlace_imul(h, k, bld, s, v) == InPlaceZip(h, k, bld, "mul", s, v)

\* Matrix iadd / isub: identical dimensions, then the two buffers as flat vectors.
MatrixMatrixOpsInPlace_iadd(h, k, bld, m, rhs) ==
    IF m.rows # rhs.rows \/ m.cols # rhs.cols
    THEN Out(h, Panic(InvalidDimensions), <<>>)
    ELSE VectorVectorOpsInPlace_iadd(h, k, bld, Slice(m.ptr, 0, m.rows * m.cols),
                                     Slice(rhs.ptr, 0, rhs.rows * rhs.cols))

MatrixMatrixOpsInPlace_isub(h, k, bld, m, rhs) ==
    IF m.rows # rhs.rows \/ m.cols # rhs.cols
    THEN Out(h, Panic(InvalidDimensions), <<>>)
    ELSE VectorVectorOpsInPlace_isub(h, k, bld, Slice(m.ptr, 0, m.rows * m.cols),
                                     Slice(rhs.ptr, 0, rhs.rows * rhs.cols))

\* isigmoid / isigmoid_derivative / irecip: the scalar function applied to every
\* element of the receiver's buffer.  (Defined after the scalar functions.)

(***************************************************************************)
(* src/src/vectors.rs                                                      *)
(***************************************************************************)
\* `zero(n)`
zero(h, n) == Out(Alloc(h, Repeat(F(0), n)), VecRes(Fresh(h), n), <<>>)

(***************************************************************************)
(* src/src/ops.rs: Functions.                                              *)
(***************************************************************************)
\* `f64::exp`, by its series up to the fourth power (positive everywhere); what
\* is checked of the functions built on it uses only that it is a function of
\* the element.
Exp(v) ==
    IF v = NaN THEN NaN
    ELSE IF IsSpecial(v) THEN (IF v[1] > 0 THEN v ELSE F(0))
    ELSE LET v2 == FMul(v, v)
             v3 == FMul(v2, v)
             v4 == FMul(v3, v)
         IN FAdd(FAdd(FAdd(FAdd(F(1), v), FDiv(v2, F(2))), FDiv(v3, F(6))), FDiv(v4, F(24)))

Functions_sigmoid(v) == FDiv(F(1), FAdd(F(1), Exp(FNeg(v))))

Functions_sigmoid_derivative(v) ==
    FMul(Functions_sigmoid(v), FSub(F(1), Functions_sigmoid(v)))

Functions_recip(v) == FDiv(F(1), v)

ScalarFn(fn, v) ==
    CASE fn = "sigmoid" -> Functions_sigmoid(v)
      [] fn = "sigmoid_derivative" -> Functions_sigmoid_derivative(v)
      [] fn = "recip" -> Functions_recip(v)

\* ops_inplace: isigmoid, isigmoid_derivative, irecip on a buffer.
FunctionsInPlace_apply(h, fn, p) ==
    Out(Store(h, p, [q \in DOMAIN h[p] |-> ScalarFn(fn, h[p][q])]), NoRes, <<>>)

\* `let mut x = self.clone(); x.i<fn>(); x` for a vector.
Functions_Vec(h, fn, v) ==
    LET c == Vec_clone(h, v)
        o == FunctionsInPlace_apply(c.heap, fn, c.res.ptr)
    IN Out(o.heap, c.res, <<>>)

\* The same for a matrix.
Functions_Matrix(h, fn, m) ==
    LET c == Matrix_clone(h, m)
        o == FunctionsInPlace_apply(c.heap, fn, c.res.ptr)
    IN Out(o.heap, c.res, <<>>)

(***************************************************************************)
(* src/src/ops.rs: scalar operations, `iter().map(|&x| x op scalar)`.      *)
(***************************************************************************)
\* The mapped buffer, or the panic of the first element whose operation panics.
MapScalar(h, k, bld, op, p, c) ==
    LET buf == h[p]
        bad == {i \in DOMAIN buf : ElemPanics(k, bld, op, buf[i], c)}
    IN IF bad # {} THEN [ok |-> FALSE, buf |-> <<>>, msg |-> ElemMsg(op, c)]
       ELSE [ok |-> TRUE, buf |-> [i \in DOMAIN buf |-> ElemOp(k, op, buf[i], c)], msg |-> ""]

MatrixScalarOps(h, k, bld, op, m, c) ==
    LET r == MapScalar(h, k, bld, op, m.ptr, c)
    IN IF r.ok THEN Matrix_from_vec(h, r.buf, m.rows, m.cols)
       ELSE Out(h, Panic(r.msg), <<>>)

VectorScalarOps(h, k, bld, op, v, c) ==
    LET r == MapScalar(h, k, bld, op, v.ptr, c)
    IN IF r.ok THEN Out(Alloc(h, r.buf), VecRes(Fresh(h), v.len), <<>>)
       ELSE Out(h, Panic(r.msg), <<>>)

\* `mutate(f)`: f is the closure |x| x op c.
UnwrapNone == "called Option::unwrap() on a None value"

\* `col_mul_row`: a zero-filled a.len x v.len matrix, then for r in 0..a.len,
\* for c in 0..v.len the cell get_mut(r, c).unwrap() is set to a[r] * v[c].
\* The cells are visited in row-major order; the first one that panics decides.
VectorVectorOps_col_mul_row(h, k, bld, a, v) ==
    LET f == Matrix_fill(h, ElemOf(k, 0), a.len, v.len)
        m == Mat(f.res.ptr, f.res.rows, f.res.cols)
        cells == 1..(a.len * v.len)
        r(q) == (q - 1) \div v.len
        c(q) == (q - 1) % v.len
        at(q) == Matrix_get_mut(m, r(q), c(q))
        bad == {q \in cells :
                  \/ at(q) = -1
                  \/ ElemPanics(k, bld, "mul", h[a.ptr][r(q) + 1], h[v.ptr][c(q) + 1])}
        first == CHOOSE q \in bad : \A j \in bad : q <= j
        val(o) == LET q == CHOOSE q \in cells : at(q) = o
                  IN ElemOp(k, "mul", h[a.ptr][r(q) + 1], h[v.ptr][c(q) + 1])
    IN IF bad # {}
       THEN Out(h, Panic(IF at(first) = -1 THEN UnwrapNone
                         ELSE ElemMsg("mul", h[v.ptr][c(first) + 1])), <<>>)
       ELSE Out(Store(f.heap, m.ptr, [i \in 1..(m.rows * m.cols) |-> val(i - 1)]),
                f.res, <<>>)

VectorVectorOps_mutate(h, k, bld, v, op, c) == VectorScalarOps(h, k, bld, op, v, c)

(***************************************************************************)
(* src/src/ops.rs: MatrixVectorOps (f32 and f64).                          *)
(***************************************************************************)
\* `for i in 0..m.rows() { m.row_mut(i).unwrap().i<op>(rhs) }` from row i on.
RECURSIVE RowLoop(_, _, _, _, _, _)
RowLoop(h, bld, op, m, rhs, i) ==
    IF i >= m.rows THEN Out(h, MatRes(m.ptr, m.rows, m.cols), <<>>)
    ELSE LET o == IF op = "add"
                  THEN VectorVectorOpsInPlace_iadd(h, "f64", bld, Matrix_row_mut(m, i), AsSlice(rhs))
                  ELSE VectorVectorOpsInPlace_isub(h, "f64", bld, Matrix_row_mut(m, i), AsSlice(rhs))
         IN IF o.res.tag = "panic" THEN o ELSE RowLoop(o.heap, bld, op, m, rhs, i + 1)

\* Mutant: the loop over the rows starts at the second row.
Mut_add_row_skips_first(h, bld, m, rhs) ==
    LET c == Matrix_clone(h, m)
    IN RowLoop(c.heap, bld, "add", c.res, rhs, 1)

MatrixVectorOps_add_row(h, bld, m, rhs) ==
    LET c == Matrix_clone(h, m)
    IN RowLoop(c.heap, bld, "add", c.res, rhs, 0)

MatrixVectorOps_sub_row(h, bld, m, rhs) ==
    LET c == Matrix_clone(h, m)
    IN RowLoop(c.heap, bld, "sub", c.res, rhs, 0)

\* Mutant: mul_vec hands its operands to the primitive without the shape check.
Mut_mul_vec_unchecked(h, m, v) ==
    LET yy == zero(h, m.rows)
        o == cblas_dgemv(yy.heap, FALSE, m.rows, m.cols, F(1), m.ptr, m.cols,
                         v.ptr, 1, F(0), yy.res.ptr, 1)
    IN Out(o.heap, yy.res, o.blas)

MatrixVectorOps_mul_vec(h, m, v) ==
    LET yy == zero(h, m.rows)
        o == d_gemv(yy.heap, FALSE, F(1), m, v, F(0), yy.res)
    IN IF o.res.tag = "panic" THEN o ELSE Out(o.heap, yy.res, o.blas)

\* Mutant: transp_mul_vec forgets the transpose flag.
Mut_transp_mul_vec_noflag(h, m, v) ==
    LET yy == zero(h, m.cols)
        o == d_gemv(yy.heap, FALSE, F(1), m, v, F(0), yy.res)
    IN IF o.res.tag = "panic" THEN o ELSE Out(o.heap, yy.res, o.blas)

MatrixVectorOps_transp_mul_vec(h, m, v) ==
    LET yy == zero(h, m.cols)
        o == d_gemv(yy.heap, TRUE, F(1), m, v, F(0), yy.res)
    IN IF o.res.tag = "panic" THEN o ELSE Out(o.heap, yy.res, o.blas)

(***************************************************************************)
(* src/src/ops.rs: MatrixVectorMul (f64).  The accumulator handed to the   *)
(* primitive is the copy `y.to_vec()`; the primitive writes through        *)
(* `as_ptr() as *mut c_double`, and the function returns the copy without  *)
(* reading it again, so the caller sees what the primitive wrote.          *)
(***************************************************************************)
\* Mutant: beta is +1, so y is added instead of subtracted.
Mut_mul_vec_minus_vec_plus(h, m, v, yy) ==
    IF m.cols # v.len \/ m.rows # yy.len
    THEN Out(h, Panic(InvalidDimensions), <<>>)
    ELSE LET targets == Vec_clone(h, yy)
             o == cblas_dgemv(targets.heap, FALSE, m.rows, m.cols, F(1), m.ptr, m.cols,
                              v.ptr, 1, F(1), targets.res.ptr, 1)
         IN Out(o.heap, targets.res, o.blas)

MatrixVectorMul_mul_vec_minus_vec(h, m, v, yy) ==
    IF m.cols # v.len \/ m.rows # yy.len
    THEN Out(h, Panic(InvalidDimensions), <<>>)
    ELSE LET targets == Vec_clone(h, yy)
             o == cblas_dgemv(targets.heap, FALSE, m.rows, m.cols, F(1), m.ptr, m.cols,
                              v.ptr, 1, F(-1), targets.res.ptr, 1)
         IN Out(o.heap, targets.res, o.blas)

\* Mutant: the transposed call is checked against the contract of the plain one.
Mut_mul_dgemv_one_contract(h, m, trans, alpha, v, beta, yy) ==
    IF m.cols # v.len \/ m.rows # yy.len
    THEN Out(h, Panic(InvalidDimensions), <<>>)
    ELSE LET r == Vec_clone(h, yy)
             o == cblas_dgemv(r.heap, trans, m.rows, m.cols, alpha, m.ptr, m.cols,
                              v.ptr, 1, beta, r.res.ptr, 1)
         IN Out(o.heap, r.res, o.blas)

\* Mutant: the leading dimension is the row count.
Mut_mul_dgemv_lda(h, m, trans, alpha, v, beta, yy) ==
    IF (~trans /\ (m.cols # v.len \/ m.rows # yy.len))
         \/ (trans /\ (m.rows # v.len \/ m.cols # yy.len))
    THEN Out(h, Panic(InvalidDimensions), <<>>)
    ELSE LET r == Vec_clone(h, yy)
             o == cblas_dgemv(r.heap, trans, m.rows, m.cols, alpha, m.ptr, m.rows,
                              v.ptr, 1, beta, r.res.ptr, 1)
         IN Out(o.heap, r.res, o.blas)

\* Mutant: the primitive writes into y itself and the copy is taken afterwards.
Mut_mul_dgemv_alias(h, m, trans, alpha, v, beta, yy) ==
    IF (~trans /\ (m.cols # v.len \/ m.rows # yy.len))
         \/ (trans /\ (m.rows # v.len \/ m.cols # yy.len))
    THEN Out(h, Panic(InvalidDimensions), <<>>)
    ELSE LET o == cblas_dgemv(h, trans, m.rows, m.cols, alpha, m.ptr, m.cols,
                              v.ptr, 1, beta, yy.ptr, 1)
             r == Vec_clone(o.heap, yy)
         IN Out(r.heap, r.res, o.blas)

MatrixVectorMul_mul_dgemv(h, m, trans, alpha, v, beta, yy) ==
    IF (~trans /\ (m.cols # v.len \/ m.rows # yy.len))
         \/ (trans /\ (m.rows # v.len \/ m.cols # yy.len))
    THEN Out(h, Panic(InvalidDimensions), <<>>)
    ELSE LET r == Vec_clone(h, yy)
             o == cblas_dgemv(r.heap, trans, m.rows, m.cols, alpha, m.ptr, m.cols,
                              v.ptr, 1, beta, r.res.ptr, 1)
         IN Out(o.heap, r.res, o.blas)

MatrixVectorMul_mul_scalar_vec(h, m, trans, alpha, v) ==
    LET n == IF trans THEN m.cols ELSE m.rows
        t == Out(Alloc(h, Repeat(F(0), n)), VecRes(Fresh(h), n), <<>>)
    IN MatrixVectorMul_mul_dgemv(t.heap, m, trans, alpha, v, F(0), t.res)

(***************************************************************************)
(* src/src/ops.rs: MatrixMatrixOps (f64).                                  *)
(***************************************************************************)
MatrixMatrixOps_add(h, bld, m, rhs) ==
    LET c == Matrix_clone(h, m)
        o == MatrixMatrixOpsInPlace_iadd(c.heap, "f64", bld, c.res, rhs)
    IN IF o.res.tag = "panic" THEN o ELSE Out(o.heap, c.res, <<>>)

MatrixMatrixOps_sub(h, bld, m, rhs) ==
    LET c == Matrix_clone(h, m)
        o == MatrixMatrixOpsInPlace_isub(c.heap, "f64", bld, c.res, rhs)
    IN IF o.res.tag = "panic" THEN o ELSE Out(o.heap, c.res, <<>>)

\* Mutant: mul hands its operands to the primitive without the shape check.
Mut_mul_unchecked(h, m, rhs, lhs_t, rhs_t) ==
    LET r == IF lhs_t THEN m.cols ELSE m.rows
        c == IF rhs_t THEN rhs.rows ELSE rhs.cols
        cm == Matrix_fill(h, F(0), r, c)
        o == cblas_dgemm(cm.heap, lhs_t, rhs_t, r, c, IF lhs_t THEN m.rows ELSE m.cols,
                         F(1), m.ptr, m.cols, rhs.ptr, rhs.cols, F(0), cm.res.ptr, c)
    IN Out(o.heap, cm.res, o.blas)

\* Mutant: the two transpose flags are passed in the wrong order.
Mut_mul_flags_swapped(h, m, rhs, lhs_t, rhs_t) ==
    LET r == IF lhs_t THEN m.cols ELSE m.rows
        c == IF rhs_t THEN rhs.rows ELSE rhs.cols
        cm == Matrix_fill(h, F(0), r, c)
        o == d_gemm(cm.heap, F(1), m, rhs, F(0), cm.res, rhs_t, lhs_t)
    IN IF o.res.tag = "panic" THEN o ELSE Out(o.heap, cm.res, o.blas)

MatrixMatrixOps_mul(h, m, rhs, lhs_t, rhs_t) ==
    LET r == IF lhs_t THEN m.cols ELSE m.rows
        c == IF rhs_t THEN rhs.rows ELSE rhs.cols
        cm == Matrix_fill(h, F(0), r, c)
        o == d_gemm(cm.heap, F(1), m, rhs, F(0), cm.res, lhs_t, rhs_t)
    IN IF o.res.tag = "panic" THEN o ELSE Out(o.heap, cm.res, o.blas)

(***************************************************************************)
(* src/src/vectors.rs: group.  The result r is a sequence of pairs         *)
(* <<value, count>>; values are compared with PartialEq.                   *)
(***************************************************************************)
\* `a != b` of PartialEq on the element kind: NaN differs from everything.
PartialEq_ne(a, b) == a = NaN \/ b = NaN \/ a # b

\* Mutant: a new run starts with count 1 and is then incremented.
Mut_group_step_new_run_one(r, val) ==
    IF Len(r) = 0 THEN Append(r, <<val, 1>>)
    ELSE LET popped == r[Len(r)]
             rest == SubSeq(r, 1, Len(r) - 1)
             differs == PartialEq_ne(popped[1], val)
             xx == IF differs THEN <<val, 1>> ELSE popped
         IN Append(IF differs THEN Append(rest, popped) ELSE rest, <<xx[1], xx[2] + 1>>)

\* One iteration of `for val in v`: the first value is pushed with count 1;
\* otherwise the last entry is popped, pushed back and replaced by (val, 0)
\* when its value differs from val, incremented, and pushed.
group_step(r, val) ==
    IF Len(r) = 0 THEN Append(r, <<val, 1>>)
    ELSE LET popped == r[Len(r)]
             rest == SubSeq(r, 1, Len(r) - 1)
             differs == PartialEq_ne(popped[1], val)
             xx == IF differs THEN <<val, 0>> ELSE popped
         IN Append(IF differs THEN Append(rest, popped) ELSE rest, <<xx[1], xx[2] + 1>>)

\* The whole loop over v from an empty r.
RECURSIVE group(_)
group(v) == IF Len(v) = 0 THEN <<>>
            ELSE group_step(group(SubSeq(v, 1, Len(v) - 1)), v[Len(v)])

(***************************************************************************)
(* The state machine.                                                      *)
(***************************************************************************)
CallRec(op, t1, t2, s1, s2) == [op |-> op, t1 |-> t1, t2 |-> t2, s1 |-> s1, s2 |-> s2]

Call0(op) == CallRec(op, FALSE, FALSE, 0, 0)

\* The operands' buffers: the result of the previous call has been dropped.
Base == [a \in {A.ptr, B.ptr, x.ptr, y.ptr} |-> heap[a]]

\* The call returns: its temporaries are dropped, the operands' buffers and the
\* buffer of the returned value (if any) stay.
Do(c, out) ==
    /\ call' = c
    /\ heap' = [a \in {A.ptr, B.ptr, x.ptr, y.ptr}
                        \cup (IF out.res.tag \in {"vec", "mat"} THEN {out.res.ptr} ELSE {})
                  |-> out.heap[a]]
    /\ res' = out.res
    /\ blas' = out.blas
    /\ UNCHANGED <<kind, build, A, B, x, y, orig>>
    /\ UNCHANGED grp

\* A call works on at most three operands: either B or the vectors are empty.
\* The program is built once, as a debug or as a release build; the arithmetic
\* of the float kind is the same in both, so it is explored in one.
Init ==
    /\ kind \in Kinds
    /\ build \in Builds
    /\ kind = "f64" => build = "debug"
    /\ \E ar \in Dims, ac \in Dims, br \in Dims, bc \in Dims,
          xn \in Dims, yn \in Dims, s \in Seeds :
         /\ (br = 0 /\ bc = 0) \/ (xn = 0 /\ yn = 0)
         /\ kind = "i8" => (br = 0 /\ bc = 0)
         /\ A = Mat(1, ar, ac)
         /\ B = Mat(2, br, bc)
         /\ x = Vec(3, xn)
         /\ y = Vec(4, yn)
         /\ heap = [a \in 1..4 |->
                      CASE a = 1 -> GenBuf(kind, s, ar * ac)
                        [] a = 2 -> GenBuf(kind, s + 1, br * bc)
                        [] a = 3 -> GenBuf(kind, s, xn)
                        [] a = 4 -> GenBufRev(kind, s + 1, yn)]
    /\ orig = heap
    /\ call = Call0("none")
    /\ res = NoRes
    /\ blas = <<>>
    /\ gpc = "idle" /\ gv = <<>> /\ gi = 0 /\ gr = <<>>

VecSub == Do(Call0("sub"), VectorVectorOps_sub(Base, kind, build, x, y))

VecAdd == Do(Call0("add"), VectorVectorOps_add(Base, kind, build, x, y))

VecMul == Do(Call0("mul"), VectorVectorOps_mul(Base, kind, build, x, y))

\* `a.add(b).sub(b)`: the sum is a temporary, the receiver of sub.
VecAddSub ==
    LET s == VectorVectorOps_add(Base, kind, build, x, y)
    IN Do(Call0("add_sub"),
          IF s.res.tag = "panic" THEN s
          ELSE VectorVectorOps_sub(s.heap, kind, build, Vec(s.res.ptr, s.res.len), y))

ColMulRow == Do(Call0("col_mul_row"), VectorVectorOps_col_mul_row(Base, kind, build, x, y))

VecDiv == Do(Call0("div"), VectorVectorOps_div(Base, kind, build, x, y))

Ops == {"add", "sub", "mul", "div"}

Fns == {"sigmoid", "sigmoid_derivative", "recip"}

VecMutate ==
    \E op \in {"mul", "sub"}, c \in Scalars :
        Do(CallRec("mutate", op = "mul", FALSE, c, 0),
           VectorVectorOps_mutate(Base, kind, build, x, op, F(c)))

VecScalar ==
    \E op \in Ops, c \in Scalars :
        Do(CallRec("vec_" \o op \o "_scalar", FALSE, FALSE, c, 0),
           VectorScalarOps(Base, kind, build, op, x, F(c)))

MatScalar ==
    \E op \in Ops, c \in Scalars :
        Do(CallRec("mat_" \o op \o "_scalar", FALSE, FALSE, c, 0),
           MatrixScalarOps(Base, kind, build, op, A, F(c)))

VecFn ==
    /\ kind = "f64"
    /\ \E fn \in Fns : Do(Call0("vec_" \o fn), Functions_Vec(Base, fn, x))

MatFn ==
    /\ kind = "f64"
    /\ \E fn \in Fns : Do(Call0("mat_" \o fn), Functions_Matrix(Base, fn, A))

AddRow ==
    /\ kind = "f64"
    /\ Do(Call0("add_row"), MatrixVectorOps_add_row(Base, build, A, x))

SubRow ==
    /\ kind = "f64"
    /\ Do(Call0("sub_row"), MatrixVectorOps_sub_row(Base, build, A, x))

MulVec ==
    /\ kind = "f64"
    /\ Do(Call0("mul_vec"), MatrixVectorOps_mul_vec(Base, A, x))

TranspMulVec ==
    /\ kind = "f64"
    /\ Do(Call0("transp_mul_vec"), MatrixVectorOps_transp_mul_vec(Base, A, x))

MulVecMinusVec ==
    /\ kind = "f64"
    /\ Do(Call0("mul_vec_minus_vec"), MatrixVectorMul_mul_vec_minus_vec(Base, A, x, y))

MulDgemv ==
    /\ kind = "f64"
    /\ \E trans \in BOOLEAN, alpha \in Scalars, beta \in Scalars :
         Do(CallRec("mul_dgemv", trans, FALSE, alpha, beta),
            MatrixVectorMul_mul_dgemv(Base, A, trans, F(alpha), x, F(beta), y))

MulScalarVec ==
    /\ kind = "f64"
    /\ \E trans \in BOOLEAN, alpha \in Scalars :
         Do(CallRec("mul_scalar_vec", trans, FALSE, alpha, 0),
            MatrixVectorMul_mul_scalar_vec(Base, A, trans, F(alpha), x))

MatAdd ==
    /\ kind = "f64"
    /\ Do(Call0("mat_add"), MatrixMatrixOps_add(Base, build, A, B))

MatSub ==
    /\ kind = "f64"
    /\ Do(Call0("mat_sub"), MatrixMatrixOps_sub(Base, build, A, B))

MatMul ==
    /\ kind = "f64"
    /\ \E lhs_t \in BOOLEAN, rhs_t \in BOOLEAN :
         Do(CallRec("mat_mul", lhs_t, rhs_t, 0, 0),
            MatrixMatrixOps_mul(Base, A, B, lhs_t, rhs_t))

Next ==
    \/ VecSub
    \/ VecAdd
    \/ VecMul
    \/ VecDiv
    \/ VecMutate
    \/ VecScalar
    \/ MatScalar
    \/ VecFn
    \/ MatFn
    \/ AddRow
    \/ SubRow
    \/ MulVec
    \/ TranspMulVec
    \/ MulVecMinusVec
    \/ MulDgemv
    \/ MulScalarVec
    \/ MatAdd
    \/ MatSub
    \/ MatMul
    \/ VecAddSub
    \/ ColMulRow

(***************************************************************************)
(* A call of `group`, one loop iteration at a time: gv is the argument, gi *)
(* the number of its elements consumed so far, gr the local r.             *)
(***************************************************************************)
GroupVals == {F(1), F(2), NaN}

GroupLens == 0..MaxLen

InitGroup ==
    /\ kind = "f64" /\ build = "debug"
    /\ A = Mat(1, 0, 0) /\ B = Mat(2, 0, 0) /\ x = Vec(3, 0) /\ y = Vec(4, 0)
    /\ heap = [a \in 1..4 |-> <<>>]
    /\ orig = heap
    /\ call = Call0("none")
    /\ res = NoRes
    /\ blas = <<>>
    /\ gpc = "loop"
    /\ \E n \in GroupLens : gv \in [1..n -> GroupVals]
    /\ gi = 0
    /\ gr = <<>>

GroupStep ==
    /\ gpc = "loop" /\ gi < Len(gv)
    /\ gr' = group_step(gr, gv[gi + 1])
    /\ gi' = gi + 1
    /\ UNCHANGED <<gpc, gv>>
    /\ UNCHANGED algebra

GroupReturn ==
    /\ gpc = "loop" /\ gi = Len(gv)
    /\ gpc' = "done"
    /\ UNCHANGED <<gv, gi, gr>>
    /\ UNCHANGED algebra

NextGroup ==
    \/ GroupStep
    \/ GroupReturn

SpecGroup == InitGroup /\ [][NextGroup]_vars

Spec == Init /\ [][Next]_vars

(***************************************************************************)
(* What the claims speak of: the operands as they were before any call     *)
(* (`orig`), read as mathematical vectors and matrices of integers, with   *)
(* rows, columns and positions counted from 1.                             *)
(***************************************************************************)
Num(v) == v[1]

XEl(i) == Num(orig[x.ptr][i])

YEl(i) == Num(orig[y.ptr][i])

AEl(i, j) == Num(orig[A.ptr][(i - 1) * A.cols + j])

BEl(i, j) == Num(orig[B.ptr][(i - 1) * B.cols + j])

RECURSIVE IntSum(_, _)
IntSum(f, n) == IF n = 0 THEN 0 ELSE IntSum(f, n - 1) + f[n]

IsVec(r, n) == r.tag = "vec" /\ r.len = n /\ Len(heap[r.ptr]) = n

IsMat(r, rows, cols) ==
    r.tag = "mat" /\ r.rows = rows /\ r.cols = cols /\ Len(heap[r.ptr]) = rows * cols

DimPanic == res.tag = "panic" /\ res.msg = InvalidDimensions

\* The shape contract of mul_dgemv.
DgemvContract(trans) ==
    IF trans THEN A.rows = x.len /\ A.cols = y.len
    ELSE A.cols = x.len /\ A.rows = y.len

\* C1: mul_vec with v.length # M.cols, and transp_mul_vec with v.length # M.rows,
\* end in a dimension-mismatch panic and return no vector.
C1_MulVecMismatchPanics ==
    /\ (call.op = "mul_vec" /\ x.len # A.cols) => DimPanic
    /\ (call.op = "transp_mul_vec" /\ x.len # A.rows) => DimPanic

C1_Witness ==
    /\ call.op = "mul_vec"
    /\ A.rows = 2 /\ A.cols = 2 /\ x.len = 1
    /\ DimPanic

\* C2: mul_dgemv panics with a dimension mismatch, before the GEMV primitive is
\* called, exactly when its shape contract is violated; on every input that
\* satisfies the contract it does not fail (and calls the primitive once, within
\* its buffers).
C2_DgemvPanicsIffContractViolated ==
    call.op = "mul_dgemv" =>
        IF DgemvContract(call.t1)
        THEN /\ res.tag = "vec"
             /\ Len(blas) = 1 /\ blas[1].fn = "dgemv" /\ ~blas[1].oob
        ELSE DimPanic /\ blas = <<>>

C2_Witness ==
    /\ call.op = "mul_dgemv" /\ call.t1
    /\ A.rows = 1 /\ A.cols = 2 /\ x.len = 1 /\ y.len = 1
    /\ DimPanic /\ blas = <<>>

\* C3: on inputs that satisfy the contract, mul_dgemv returns r with
\* r.length = y.length and r[i] = alpha * sum_k op(M)[i][k] * x[k] + beta * y[i].
C3_DgemvValue ==
    (call.op = "mul_dgemv" /\ DgemvContract(call.t1)) =>
        /\ IsVec(res, y.len)
        /\ \A i \in 1..y.len :
             heap[res.ptr][i] =
                F(call.s1 * IntSum([k \in 1..x.len |->
                                      (IF call.t1 THEN AEl(k, i) ELSE AEl(i, k)) * XEl(k)],
                                   x.len)
                  + call.s2 * YEl(i))

C3_Witness ==
    /\ call.op = "mul_dgemv" /\ call.t1
    /\ A.rows = 1 /\ A.cols = 2 /\ x.len = 1 /\ y.len = 2
    /\ res.tag = "vec"
    /\ heap[res.ptr] # heap[y.ptr]

\* C4: for v.length = M.cols, mul_vec returns the vector of length M.rows with
\* entry i = sum_j M[i][j] * v[j]; for v.length = M.rows, transp_mul_vec returns
\* the vector of length M.cols with entry j = sum_i M[i][j] * v[i].
C4_MulVecValue ==
    /\ (call.op = "mul_vec" /\ x.len = A.cols) =>
          /\ IsVec(res, A.rows)
          /\ \A i \in 1..A.rows :
               heap[res.ptr][i] = F(IntSum([j \in 1..A.cols |-> AEl(i, j) * XEl(j)], A.cols))
    /\ (call.op = "transp_mul_vec" /\ x.len = A.rows) =>
          /\ IsVec(res, A.cols)
          /\ \A j \in 1..A.cols :
               heap[res.ptr][j] = F(IntSum([i \in 1..A.rows |-> AEl(i, j) * XEl(i)], A.rows))

C4_Witness ==
    /\ call.op = "transp_mul_vec"
    /\ A.rows = 2 /\ A.cols = 1 /\ x.len = 2
    /\ res.tag = "vec" /\ res.len = 1
    /\ heap[res.ptr][1] # F(0)

\* C5: after any sequence of allocating operations every operand has the
\* dimensions and the element values it had before the sequence, and a returned
\* value lives in a buffer of its own.
OperandPtrs == {A.ptr, B.ptr, x.ptr, y.ptr}

C5_OperandsUnchanged ==
    /\ \A p \in OperandPtrs : heap[p] = orig[p]
    /\ Len(heap[A.ptr]) = A.rows * A.cols
    /\ Len(heap[B.ptr]) = B.rows * B.cols
    /\ Len(heap[x.ptr]) = x.len
    /\ Len(heap[y.ptr]) = y.len
    /\ res.tag \in {"vec", "mat"} => res.ptr \notin OperandPtrs

C5_Witness ==
    /\ call.op = "mul_dgemv"
    /\ res.tag = "vec" /\ y.len = 2
    /\ heap[res.ptr] # heap[y.ptr]
    /\ heap[y.ptr] = orig[y.ptr]

\* C6: for a matrix with at least one row, add_row(v) and sub_row(v) panic when
\* v.length # M.cols; otherwise they return a matrix of M's dimensions whose
\* entry (i, j) is M[i][j] + v[j], respectively M[i][j] - v[j].
C6_AddSubRow ==
    (call.op \in {"add_row", "sub_row"} /\ A.rows >= 1) =>
        IF x.len # A.cols THEN DimPanic
        ELSE /\ IsMat(res, A.rows, A.cols)
             /\ \A i \in 1..A.rows, j \in 1..A.cols :
                  heap[res.ptr][(i - 1) * A.cols + j] =
                     F(IF call.op = "add_row" THEN AEl(i, j) + XEl(j) ELSE AEl(i, j) - XEl(j))

C6_Witness ==
    /\ call.op = "add_row"
    /\ A.rows = 1 /\ A.cols = 2 /\ x.len = 1
    /\ DimPanic

\* The effective shapes of the operands of mul under its transpose flags.
EffRowsA == IF call.t1 THEN A.cols ELSE A.rows

EffColsA == IF call.t1 THEN A.rows ELSE A.cols

EffRowsB == IF call.t2 THEN B.cols ELSE B.rows

EffColsB == IF call.t2 THEN B.rows ELSE B.cols

\* C7: when the effective inner dimensions differ, A.mul(B, lhs_t, rhs_t) ends
\* in a dimension error: no matrix is returned and the GEMM primitive is not
\* invoked.
C7_MulMismatchPanics ==
    (call.op = "mat_mul" /\ EffColsA # EffRowsB) => (DimPanic /\ blas = <<>>)

C7_Witness ==
    /\ call.op = "mat_mul" /\ call.t1 /\ ~call.t2
    /\ A.rows = 1 /\ A.cols = 2 /\ B.rows = 2 /\ B.cols = 2
    /\ DimPanic

\* C8: when the effective inner dimensions match, A.mul(B, lhs_t, rhs_t) returns
\* the (lhs_t ? A.cols : A.rows) x (rhs_t ? B.rows : B.cols) matrix whose entry
\* (i, j) is sum_k op(A)[i][k] * op(B)[k][j].
C8_MulValue ==
    (call.op = "mat_mul" /\ EffColsA = EffRowsB) =>
        /\ IsMat(res, EffRowsA, EffColsB)
        /\ Len(blas) = 1 /\ ~blas[1].oob
        /\ \A i \in 1..EffRowsA, j \in 1..EffColsB :
             heap[res.ptr][(i - 1) * EffColsB + j] =
                F(IntSum([k \in 1..EffColsA |->
                            (IF call.t1 THEN AEl(k, i) ELSE AEl(i, k))
                            * (IF call.t2 THEN BEl(j, k) ELSE BEl(k, j))],
                         EffColsA))

C8_Witness ==
    /\ call.op = "mat_mul" /\ call.t1 /\ call.t2
    /\ A.rows = 1 /\ A.cols = 2 /\ B.rows = 2 /\ B.cols = 1
    /\ res.tag = "mat" /\ res.rows = 2 /\ res.cols = 2
    /\ \A q \in 1..4 : heap[res.ptr][q] # F(0)

OrigHeap == [p \in OperandPtrs |-> orig[p]]

CloneVecInPlace(op) ==
    LET c == Vec_clone(OrigHeap, x)
    IN [clone |-> c.res,
        out |-> InPlaceZip(c.heap, kind, build, op, AsSlice(c.res), AsSlice(y))]

CloneMatInPlace(op) ==
    LET c == Matrix_clone(OrigHeap, A)
    IN [clone |-> c.res,
        out |-> IF op = "add"
                THEN MatrixMatrixOpsInPlace_iadd(c.heap, "f64", build, c.res, B)
                ELSE MatrixMatrixOpsInPlace_isub(c.heap, "f64", build, c.res, B)]

CloneFnInPlace(fn, ofVector) ==
    LET c == IF ofVector THEN Vec_clone(OrigHeap, x) ELSE Matrix_clone(OrigHeap, A)
    IN [clone |-> c.res, out |-> FunctionsInPlace_apply(c.heap, fn, c.res.ptr)]

\* The call returned exactly the value left in the clone (or failed as the
\* in-place operation on the clone fails).
SameAsClone(ci) ==
    IF ci.out.res.tag = "panic"
    THEN res.tag = "panic" /\ res.msg = ci.out.res.msg
    ELSE /\ res.tag = ci.clone.tag
         /\ res.len = ci.clone.len /\ res.rows = ci.clone.rows /\ res.cols = ci.clone.cols
         /\ heap[res.ptr] = ci.out.heap[ci.clone.ptr]

ElementwiseUnary ==
    /\ \A fn \in Fns : call.op = "vec_" \o fn => SameAsClone(CloneFnInPlace(fn, TRUE))
    /\ \A fn \in Fns : call.op = "mat_" \o fn => SameAsClone(CloneFnInPlace(fn, FALSE))

ElementwiseMatrix ==
    /\ call.op = "mat_add" => SameAsClone(CloneMatInPlace("add"))
    /\ call.op = "mat_sub" => SameAsClone(CloneMatInPlace("sub"))

\* C10 as stated: for every elementwise family member and for every receiver and
\* operand, the allocating operation returns exactly the value left in a clone of
\* the receiver by the matching in-place operation.
C10_Original ==
    /\ call.op \in {"add", "sub", "mul"} => SameAsClone(CloneVecInPlace(call.op))
    /\ ElementwiseMatrix
    /\ ElementwiseUnary

\* C10 as amended: the same, for the vector-vector operations only when the two
\* vectors have the same length (for other lengths the allocating operation
\* returns the vector truncated to the shorter length, C9).
C10_AllocEqualsCloneInPlace ==
    /\ (call.op \in {"add", "sub", "mul"} /\ x.len = y.len) =>
          SameAsClone(CloneVecInPlace(call.op))
    /\ ElementwiseMatrix
    /\ ElementwiseUnary

C10_Witness ==
    /\ call.op = "add" /\ kind = "f64"
    /\ x.len = 2 /\ y.len = 2
    /\ IsVec(res, 2)
    /\ heap[res.ptr] # heap[x.ptr]

\* C11: for all equal-length vectors a and b of any supported element kind
\* (the bounded integer kinds included, for every pair of element values),
\* a.add(b).sub(b) completes and equals a element for element.
C11_AddSubRoundTrip ==
    (call.op = "add_sub" /\ x.len = y.len) =>
        (IsVec(res, x.len) /\ heap[res.ptr] = orig[x.ptr])

\* What does hold: the round trip completes and gives back a in a release build
\* (wrapping arithmetic) and for the float kind on exact values; in a debug
\* build it gives back a or panics on an overflowing element sum.
C11_RoundTripUnlessOverflowPanic ==
    (call.op = "add_sub" /\ x.len = y.len) =>
        \/ IsVec(res, x.len) /\ heap[res.ptr] = orig[x.ptr]
        \/ /\ kind = "i8" /\ build = "debug"
           /\ res.tag = "panic" /\ res.msg = "arithmetic overflow"
           /\ \E i \in 1..x.len :
                Num(orig[x.ptr][i]) + Num(orig[y.ptr][i]) \notin IntMin..IntMax

\* C12: for every column vector col of length m and row vector row of length
\* n (m = 0 or n = 0 included), col.col_mul_row(row) returns a matrix with
\* exactly m rows and n columns whose entry (i, j) is col[i] * row[j], and it
\* never fails on an element access.
C12_ColMulRow ==
    call.op = "col_mul_row" =>
        /\ IsMat(res, x.len, y.len)
        /\ \A i \in 1..x.len, j \in 1..y.len :
             heap[res.ptr][(i - 1) * y.len + j]
                 = ElemOp(kind, "mul", orig[x.ptr][i], orig[y.ptr][j])

\* What does hold: the outer product is returned, or, in a debug build, the
\* call panics on an overflowing element product; never on an element access.
C12_ColMulRowUnlessOverflowPanic ==
    call.op = "col_mul_row" =>
        \/ /\ IsMat(res, x.len, y.len)
           /\ \A i \in 1..x.len, j \in 1..y.len :
                heap[res.ptr][(i - 1) * y.len + j]
                    = ElemOp(kind, "mul", orig[x.ptr][i], orig[y.ptr][j])
        \/ /\ kind = "i8" /\ build = "debug"
           /\ res.tag = "panic" /\ res.msg = "arithmetic overflow"
           /\ \E i \in 1..x.len, j \in 1..y.len :
                Num(orig[x.ptr][i]) * Num(orig[y.ptr][j]) \notin IntMin..IntMax

\* C13: mul_vec_minus_vec(x, y) has the same outcome as
\* mul_dgemv(false, 1, x, -1, y): a dimension-mismatch panic exactly when
\* M.cols # x.length or M.rows # y.length, and otherwise the vector of length
\* M.rows with entry i = (sum_j M[i][j] * x[j]) - y[i].
C13_MulVecMinusVec ==
    call.op = "mul_vec_minus_vec" =>
        LET d == MatrixVectorMul_mul_dgemv(OrigHeap, A, FALSE, F(1), x, F(-1), y)
        IN /\ IF A.cols # x.len \/ A.rows # y.len
              THEN DimPanic /\ blas = <<>>
              ELSE /\ IsVec(res, A.rows)
                   /\ \A i \in 1..A.rows :
                        heap[res.ptr][i] =
                           F(IntSum([j \in 1..A.cols |-> AEl(i, j) * XEl(j)], A.cols)
                             - YEl(i))
           /\ res.tag = d.res.tag /\ res.msg = d.res.msg /\ res.len = d.res.len
           /\ res.tag = "vec" => heap[res.ptr] = d.heap[d.res.ptr]
           /\ blas = d.blas

C13_Witness ==
    /\ call.op = "mul_vec_minus_vec"
    /\ A.rows = 2 /\ A.cols = 1 /\ x.len = 1 /\ y.len = 2
    /\ res.tag = "vec" /\ res.len = 2
    /\ YEl(1) # 0
    /\ heap[res.ptr][1] # F(AEl(1, 1) * XEl(1))

C13_WitnessPanic ==
    /\ call.op = "mul_vec_minus_vec"
    /\ A.cols = x.len /\ A.rows # y.len
    /\ DimPanic

\* The entries of r expanded: count copies of each value, concatenated.
RECURSIVE Expand(_)
Expand(r) == IF Len(r) = 0 THEN <<>>
             ELSE Expand(SubSeq(r, 1, Len(r) - 1))
                    \o [i \in 1..r[Len(r)][2] |-> r[Len(r)][1]]

RECURSIVE SumCounts(_)
SumCounts(r) == IF Len(r) = 0 THEN 0
                ELSE SumCounts(SubSeq(r, 1, Len(r) - 1)) + r[Len(r)][2]

\* r is the run-length encoding of the sequence p.
IsRunLength(r, p) ==
    /\ \A k \in 1..Len(r) : r[k][2] >= 1
    /\ \A k \in 1..(Len(r) - 1) : PartialEq_ne(r[k][1], r[k + 1][1])
    /\ Expand(r) = p
    /\ SumCounts(r) = Len(p)
    /\ (Len(p) = 0 => r = <<>>)

\* C14: group(v) returns the run-length encoding of v in order: every count is
\* at least 1, no two consecutive entries have equal values, expanding the
\* entries gives back exactly v (the counts sum to v.length), and the empty
\* vector gives the empty result; after each step of the loop the same holds
\* for the prefix of v processed so far.
C14_GroupRunLength ==
    gpc \in {"loop", "done"} =>
        /\ IsRunLength(gr, SubSeq(gv, 1, gi))
        /\ gpc = "done" => (gi = Len(gv) /\ gr = group(gv) /\ IsRunLength(gr, gv))

C14_Witness ==
    /\ gpc = "done"
    /\ gv = <<F(1), F(1), F(2), F(2)>>
    /\ gr = <<<<F(1), 2>>, <<F(2), 2>>>>

C14_WitnessEmpty ==
    /\ gpc = "done" /\ gv = <<>> /\ gr = <<>>

C14_WitnessMidLoop ==
    /\ gpc = "loop" /\ gi = 2 /\ Len(gv) = 3
    /\ gv[1] = gv[2] /\ gv[1] # NaN
    /\ gr = <<<<gv[1], 2>>>>

====
